---- MODULE Spec2Model ----
(***************************************************************************)
(* Model of the Telegram video-generator bot (src/railway_bot.py):         *)
(* the rate limiter, the command and text handlers, the background         *)
(* generation job and the input parser.                                    *)
(*                                                                         *)
(* Python strings are sequences of one-character strings, so that split,   *)
(* strip, lower and the substring test are computed as the code computes   *)
(* them.  Time is the value of datetime.now() in whole hours.              *)
(***************************************************************************)
EXTENDS Integers, Sequences, FiniteSets, TLC

VARIABLES
    ADMIN_IDS,          \* BotConfig.ADMIN_IDS: list of strings
    USER_COOLDOWNS,     \* BotConfig.USER_COOLDOWNS: dict user_id -> time
    now,                \* the clock read by datetime.now()
    user_data,          \* context.user_data['waiting_for_input'] per user
    jobs,               \* the tasks made by asyncio.create_task, by number
    last,               \* the update handled last and the reply it sent
    text,               \* argument of a parse_video_config call
    parsed,             \* what that call returned or raised
    accepted            \* history: per user, the /buatvideo commands that
                        \* passed the rate-limit check (below zero in
                        \* the specifications that do not count them)

vars == <<ADMIN_IDS, USER_COOLDOWNS, now, user_data, jobs, last, text, parsed,
          accepted>>

-----------------------------------------------------------------------------
(* Bounds of the model *)

MaxJobs == 2        \* generation jobs launched in one run
MaxLines == 3       \* lines of a text given to the parser
MaxAccepted == 3    \* accepted /buatvideo commands counted for one user

-----------------------------------------------------------------------------
(* str methods *)

Whitespace == {" ", "\t", "\n", "\r"}

UpperCase ==
    <<"A", "B", "C", "D", "E", "F", "G", "H", "I", "J", "K", "L", "M", "N",
      "O", "P", "Q", "R", "S", "T", "U", "V", "W", "X", "Y", "Z">>
LowerCase ==
    <<"a", "b", "c", "d", "e", "f", "g", "h", "i", "j", "k", "l", "m", "n",
      "o", "p", "q", "r", "s", "t", "u", "v", "w", "x", "y", "z">>

LowerChar(c) ==
    IF \E i \in 1..Len(UpperCase) : UpperCase[i] = c
    THEN LowerCase[CHOOSE i \in 1..Len(UpperCase) : UpperCase[i] = c]
    ELSE c

\* s.lower()
Lower(s) == [i \in 1..Len(s) |-> LowerChar(s[i])]

RECURSIVE LStrip(_)
LStrip(s) ==
    IF s # <<>> /\ Head(s) \in Whitespace THEN LStrip(Tail(s)) ELSE s

RECURSIVE RStrip(_)
RStrip(s) ==
    IF s # <<>> /\ s[Len(s)] \in Whitespace
    THEN RStrip(SubSeq(s, 1, Len(s) - 1))
    ELSE s

\* s.strip()
Strip(s) == RStrip(LStrip(s))

\* sub in s
Contains(sub, s) ==
    \E i \in 1..(Len(s) - Len(sub) + 1) : SubSeq(s, i, i + Len(sub) - 1) = sub

\* c in s, for a single character
HasChar(c, s) == \E i \in 1..Len(s) : s[i] = c

\* s.find(c) + 1 for a character that occurs in s
FirstIndex(c, s) ==
    CHOOSE i \in 1..Len(s) : s[i] = c /\ \A j \in 1..(i - 1) : s[j] # c

\* s.split(sep) for a single-character separator
RECURSIVE Split(_, _)
Split(s, sep) ==
    IF ~HasChar(sep, s)
    THEN <<s>>
    ELSE LET i == FirstIndex(sep, s)
         IN  <<SubSeq(s, 1, i - 1)>> \o Split(SubSeq(s, i + 1, Len(s)), sep)

\* s.split(sep, 1) for a string that holds sep
SplitOnce(s, sep) ==
    LET i == FirstIndex(sep, s)
    IN  <<SubSeq(s, 1, i - 1), SubSeq(s, i + 1, Len(s))>>

\* str(n) for the user ids of the model
Digits == <<"0", "1", "2", "3", "4", "5", "6", "7", "8", "9">>

RECURSIVE Str(_)
Str(n) ==
    IF n < 10 THEN <<Digits[n + 1]>>
    ELSE Str(n \div 10) \o <<Digits[(n % 10) + 1]>>

-----------------------------------------------------------------------------
(* parse_video_config *)

kTopik == <<"t", "o", "p", "i", "k">>
kTopic == <<"t", "o", "p", "i", "c">>
kMode == <<"m", "o", "d", "e">>
kLong == <<"l", "o", "n", "g">>
kStyle == <<"s", "t", "y", "l", "e">>
kGaya == <<"g", "a", "y", "a">>
kCinematic == <<"c", "i", "n", "e", "m", "a", "t", "i", "c">>

DefaultConfig == [topic |-> <<>>, mode |-> "short", style |-> kCinematic]

\* [line.strip() for line in text.split('\n') if line.strip()]
ConfigLines(t) ==
    LET raw == Split(t, "\n")
        stripped == [i \in 1..Len(raw) |-> Strip(raw[i])]
        NonEmpty(l) == l # <<>>
    IN  SelectSeq(stripped, NonEmpty)

\* the loop body with key == 'topik' or key == 'topic' for the substring tests
ParseLine_exact_key(config, line) ==
    IF ~HasChar(":", line)
    THEN config
    ELSE LET kv == SplitOnce(line, ":")
             key == Lower(Strip(kv[1]))
             value == Strip(kv[2])
         IN  IF key = kTopik \/ key = kTopic
             THEN [config EXCEPT !.topic = value]
             ELSE IF Contains(kMode, key)
             THEN IF Contains(kLong, Lower(value))
                  THEN [config EXCEPT !.mode = "long"]
                  ELSE [config EXCEPT !.mode = "short"]
             ELSE IF Contains(kStyle, key) \/ Contains(kGaya, key)
             THEN [config EXCEPT !.style = value]
             ELSE config

\* the loop body with the topic kept once set
\* (if not config['topic']: config['topic'] = value)
ParseLine_first_wins(config, line) ==
    IF ~HasChar(":", line)
    THEN config
    ELSE LET kv == SplitOnce(line, ":")
             key == Lower(Strip(kv[1]))
             value == Strip(kv[2])
         IN  IF Contains(kTopik, key) \/ Contains(kTopic, key)
             THEN IF config.topic = <<>>
                  THEN [config EXCEPT !.topic = value]
                  ELSE config
             ELSE IF Contains(kMode, key)
             THEN IF Contains(kLong, Lower(value))
                  THEN [config EXCEPT !.mode = "long"]
                  ELSE [config EXCEPT !.mode = "short"]
             ELSE IF Contains(kStyle, key) \/ Contains(kGaya, key)
             THEN [config EXCEPT !.style = value]
             ELSE config

\* the loop body with a last else branch that takes the value as the style
ParseLine_else_style(config, line) ==
    IF ~HasChar(":", line)
    THEN config
    ELSE LET kv == SplitOnce(line, ":")
             key == Lower(Strip(kv[1]))
             value == Strip(kv[2])
         IN  IF Contains(kTopik, key) \/ Contains(kTopic, key)
             THEN [config EXCEPT !.topic = value]
             ELSE IF Contains(kMode, key)
             THEN IF Contains(kLong, Lower(value))
                  THEN [config EXCEPT !.mode = "long"]
                  ELSE [config EXCEPT !.mode = "short"]
             ELSE [config EXCEPT !.style = value]

\* the body of the loop over the lines
ParseLine(config, line) ==
    IF ~HasChar(":", line)
    THEN config
    ELSE LET kv == SplitOnce(line, ":")
             key == Lower(Strip(kv[1]))
             value == Strip(kv[2])
         IN  IF Contains(kTopik, key) \/ Contains(kTopic, key)
             THEN [config EXCEPT !.topic = value]
             ELSE IF Contains(kMode, key)
             THEN IF Contains(kLong, Lower(value))
                  THEN [config EXCEPT !.mode = "long"]
                  ELSE [config EXCEPT !.mode = "short"]
             ELSE IF Contains(kStyle, key) \/ Contains(kGaya, key)
             THEN [config EXCEPT !.style = value]
             ELSE config

RECURSIVE ParseLoop(_, _)
ParseLoop(config, lines) ==
    IF lines = <<>> THEN config
    ELSE ParseLoop(ParseLine(config, Head(lines)), Tail(lines))

\* a call that raised ValueError has raised = TRUE and the default config
parse_video_config(t) ==
    LET config == ParseLoop(DefaultConfig, ConfigLines(t))
    IN  IF config.topic = <<>>
        THEN [raised |-> TRUE, config |-> DefaultConfig]
        ELSE [raised |-> FALSE, config |-> config]

-----------------------------------------------------------------------------
(* Texts given to the parser *)

InputLines == {
    <<"T", "o", "p", "i", "k", ":", " ", "A", "I">>,
    <<"T", "O", "P", "I", "C", " ", ":", " ", " ">>,
    <<"x", " ", "t", "o", "p", "i", "c", ":", " ", "a", ":", "b">>,
    <<"M", "o", "d", "e", ":", " ", "L", "O", "N", "G">>,
    <<"m", "o", "d", "e", ":", " ", "x">>,
    <<"G", "a", "y", "a", ":", " ", "d", "a", "r", "k">>,
    <<"S", "t", "y", "l", "e", ":", " ", "s">>,
    <<"h", "e", "l", "l", "o">>,
    <<"j", "u", "d", "u", "l", ":", " ", "z">>,
    <<":", " ", "t", "o", "p", "i", "c">>,
    <<" ">> }

RECURSIVE Join(_)
Join(ls) ==
    IF ls = <<>> THEN <<>>
    ELSE IF Len(ls) = 1 THEN ls[1]
    ELSE ls[1] \o <<"\n">> \o Join(Tail(ls))

Texts == { Join(ls) : ls \in UNION { [1..k -> InputLines] : k \in 0..MaxLines } }

NotParsed == [raised |-> FALSE, config |-> DefaultConfig]

-----------------------------------------------------------------------------
(* Configuration and the rate limiter *)

COOLDOWN_HOURS == 24
TELEGRAM_LIMIT_MB == 50

Users == {1, 2}

\* the ADMIN_IDS environment variable: "2, 1"
ADMIN_ENV == <<"2", ",", " ", "1">>

\* the readings of datetime.now() the model takes
Clock == {0, COOLDOWN_HOURS - 1, COOLDOWN_HOURS}

\* str(user_id) in BotConfig.ADMIN_IDS
IsAdmin(user_id) == \E i \in 1..Len(ADMIN_IDS) : ADMIN_IDS[i] = Str(user_id)

\* can_generate without the administrator test
can_generate_no_admin(user_id) ==
    IF user_id \in DOMAIN USER_COOLDOWNS
       /\ now - USER_COOLDOWNS[user_id] < COOLDOWN_HOURS
    THEN [allowed |-> FALSE,
          hours_left |-> COOLDOWN_HOURS - (now - USER_COOLDOWNS[user_id])]
    ELSE [allowed |-> TRUE, hours_left |-> 0]

\* can_generate with <= for <
can_generate_le(user_id) ==
    IF IsAdmin(user_id)
    THEN [allowed |-> TRUE, hours_left |-> 0]
    ELSE IF user_id \in DOMAIN USER_COOLDOWNS
            /\ now - USER_COOLDOWNS[user_id] <= COOLDOWN_HOURS
    THEN [allowed |-> FALSE,
          hours_left |-> COOLDOWN_HOURS - (now - USER_COOLDOWNS[user_id])]
    ELSE [allowed |-> TRUE, hours_left |-> 0]

\* can_generate with the time passed for the time left
can_generate_time_passed(user_id) ==
    IF IsAdmin(user_id)
    THEN [allowed |-> TRUE, hours_left |-> 0]
    ELSE IF user_id \in DOMAIN USER_COOLDOWNS
            /\ now - USER_COOLDOWNS[user_id] < COOLDOWN_HOURS
    THEN [allowed |-> FALSE, hours_left |-> now - USER_COOLDOWNS[user_id]]
    ELSE [allowed |-> TRUE, hours_left |-> 0]

can_generate(user_id) ==
    IF IsAdmin(user_id)
    THEN [allowed |-> TRUE, hours_left |-> 0]
    ELSE IF user_id \in DOMAIN USER_COOLDOWNS
            /\ now - USER_COOLDOWNS[user_id] < COOLDOWN_HOURS
    THEN [allowed |-> FALSE,
          hours_left |-> COOLDOWN_HOURS - (now - USER_COOLDOWNS[user_id])]
    ELSE [allowed |-> TRUE, hours_left |-> 0]

\* the dict after BotConfig.USER_COOLDOWNS = {user_id: datetime.now()}
mark_generated_replace(user_id) == [u \in {user_id} |-> now]

\* the dict after USER_COOLDOWNS[user_id] = datetime.now()
mark_generated(user_id) ==
    [u \in DOMAIN USER_COOLDOWNS \cup {user_id} |->
        IF u = user_id THEN now ELSE USER_COOLDOWNS[u]]

-----------------------------------------------------------------------------
(* Generation jobs *)

JobIds == 1..MaxJobs

\* result: what the generator call did ("none" while it has not ended);
\* file: the state of result['video_path']; log: the events of the request
\* in order, from the confirmation handle_input sends before it creates the
\* task
NoJob == [pc |-> "none", user |-> 0, config |-> DefaultConfig, result |-> "none",
          size |-> 0, file |-> "none", log |-> <<>>, detached |-> TRUE]

\* st_size of the file a generator call returns: one byte under 50 MB, and 50 MB
Sizes == {TELEGRAM_LIMIT_MB * 1024 * 1024 - 1, TELEGRAM_LIMIT_MB * 1024 * 1024}

\* file_size_mb < 50, with file_size_mb = st_size / 1024 / 1024
fits_telegram(st_size) == st_size < TELEGRAM_LIMIT_MB * 1024 * 1024

\* await generate_video_task(...) in the handler, for create_task
await_task(j, user_id, config) ==
    [jobs EXCEPT ![j] = [NoJob EXCEPT !.pc = "start", !.user = user_id,
                                      !.config = config, !.detached = FALSE]]

\* asyncio.create_task(generate_video_task(update, context, config, user_id))
create_task(j, user_id, config) ==
    [jobs EXCEPT ![j] = [NoJob EXCEPT !.pc = "start", !.user = user_id,
                                      !.config = config, !.detached = TRUE]]

\* the handler of the next update runs when no handler is awaiting a job
LoopIdle ==
    \A j \in JobIds : jobs[j].pc \in {"none", "done"} \/ jobs[j].detached

Event(ev, ok) == [ev |-> ev, ok |-> ok]

Logged(j, ev, ok) == [jobs[j] EXCEPT !.log = Append(@, Event(ev, ok))]

\* the job has called a send of this kind
Sent(j, ev) == \E i \in 1..Len(jobs[j].log) : jobs[j].log[i].ev = ev

\* the number of events of this kind in the job's log
Count(j, ev) == Cardinality({i \in 1..Len(jobs[j].log) : jobs[j].log[i].ev = ev})

-----------------------------------------------------------------------------
(* Command and text handlers, each handling one update.  The application  *)
(* handles the updates one after the other, and a handler reads the shared *)
(* state before its first await and writes only the user's flag after it,  *)
(* while the jobs write only the cooldown map: a handler is one action.    *)

\* texts a user sends: "Topik: AI\nMode: LONG" and "mode: x\nGaya: dark"
InputTexts == {
    Join(<< <<"T", "o", "p", "i", "k", ":", " ", "A", "I">>,
            <<"M", "o", "d", "e", ":", " ", "L", "O", "N", "G">> >>),
    Join(<< <<"m", "o", "d", "e", ":", " ", "x">>,
            <<"G", "a", "y", "a", ":", " ", "d", "a", "r", "k">> >>) }

NoUpdate == [op |-> "none", user |-> 0, reply |-> "none"]

\* reply is the message the handler passed to reply_text
Handled(op, user_id, reply) == [op |-> op, user |-> user_id, reply |-> reply]

\* the lowest job number not in use
FreeJob == CHOOSE j \in JobIds : jobs[j].pc = "none" /\ \A k \in 1..(j - 1) : jobs[k].pc # "none"

start(user_id) ==
    /\ LoopIdle
    /\ last' = Handled("start", user_id, "welcome")
    /\ UNCHANGED <<ADMIN_IDS, USER_COOLDOWNS, now, user_data, jobs, text, parsed, accepted>>

help_command(user_id) ==
    /\ LoopIdle
    /\ last' = Handled("help", user_id, "help")
    /\ UNCHANGED <<ADMIN_IDS, USER_COOLDOWNS, now, user_data, jobs, text, parsed, accepted>>

\* status with context.user_data.clear() before the reply
status_resets(user_id) ==
    /\ LoopIdle
    /\ last' = Handled("status", user_id,
                       IF can_generate(user_id).allowed THEN "ready" ELSE "wait")
    /\ user_data' = [user_data EXCEPT ![user_id] = FALSE]
    /\ UNCHANGED <<ADMIN_IDS, USER_COOLDOWNS, now, jobs, text, parsed, accepted>>

status(user_id) ==
    /\ LoopIdle
    /\ last' = Handled("status", user_id,
                       IF can_generate(user_id).allowed THEN "ready" ELSE "wait")
    /\ UNCHANGED <<ADMIN_IDS, USER_COOLDOWNS, now, user_data, jobs, text, parsed, accepted>>

\* the accepted commands are counted where accepted starts at zero, and
\* are not where it is below zero
Counted(user_id) == accepted[user_id] >= 0

\* accepted after one more /buatvideo of the user has passed the check
Accept(user_id) ==
    IF Counted(user_id)
    THEN [accepted EXCEPT ![user_id] = @ + 1]
    ELSE accepted

\* buatvideo with the flag cleared when the command is refused
buatvideo_refused_resets(user_id, ok) ==
    /\ LoopIdle
    /\ IF ~can_generate(user_id).allowed
       THEN /\ last' = Handled("buatvideo", user_id, "cooldown")
            /\ user_data' = [user_data EXCEPT ![user_id] = FALSE]
            /\ UNCHANGED accepted
       ELSE /\ accepted[user_id] < MaxAccepted
            /\ accepted' = Accept(user_id)
            /\ last' = Handled("buatvideo", user_id, "instruction")
            /\ user_data' = IF ok THEN [user_data EXCEPT ![user_id] = TRUE]
                                  ELSE user_data
    /\ UNCHANGED <<ADMIN_IDS, USER_COOLDOWNS, now, jobs, text, parsed>>

\* ok: the reply_text call returned (TRUE) or raised (FALSE)
buatvideo(user_id, ok) ==
    /\ LoopIdle
    /\ IF ~can_generate(user_id).allowed
       THEN /\ last' = Handled("buatvideo", user_id, "cooldown")
            /\ UNCHANGED <<user_data, accepted>>
       ELSE /\ accepted[user_id] < MaxAccepted
            /\ accepted' = Accept(user_id)
            /\ last' = Handled("buatvideo", user_id, "instruction")
            /\ user_data' = IF ok THEN [user_data EXCEPT ![user_id] = TRUE]
                                  ELSE user_data
    /\ UNCHANGED <<ADMIN_IDS, USER_COOLDOWNS, now, jobs, text, parsed>>

\* handle_input clearing the flag before it parses
handle_input_clear_first(user_id, t, ok) ==
    /\ LoopIdle
    /\ IF ~user_data[user_id]
       THEN /\ last' = Handled("input", user_id, "none")
            /\ UNCHANGED <<user_data, jobs>>
       ELSE LET r == parse_video_config(t)
            IN  IF r.raised
                THEN /\ last' = Handled("input", user_id, "format_error")
                     /\ user_data' = [user_data EXCEPT ![user_id] = FALSE]
                     /\ UNCHANGED jobs
                ELSE /\ \E j \in JobIds : jobs[j].pc = "none"
                     /\ last' = Handled("input", user_id, "confirm")
                     /\ user_data' = [user_data EXCEPT ![user_id] = FALSE]
                     /\ jobs' = IF ok
                                THEN [create_task(FreeJob, user_id, r.config)
                                         EXCEPT ![FreeJob].log = <<Event("confirm", TRUE)>>]
                                ELSE jobs
    /\ UNCHANGED <<ADMIN_IDS, USER_COOLDOWNS, now, text, parsed, accepted>>

\* handle_input answering a text it did not ask for
handle_input_hint(user_id, t, ok) ==
    /\ LoopIdle
    /\ IF ~user_data[user_id]
       THEN /\ last' = Handled("input", user_id, "hint")
            /\ UNCHANGED <<user_data, jobs>>
       ELSE LET r == parse_video_config(t)
            IN  IF r.raised
                THEN /\ last' = Handled("input", user_id, "format_error")
                     /\ UNCHANGED <<user_data, jobs>>
                ELSE /\ \E j \in JobIds : jobs[j].pc = "none"
                     /\ last' = Handled("input", user_id, "confirm")
                     /\ user_data' = [user_data EXCEPT ![user_id] = FALSE]
                     /\ jobs' = IF ok
                                THEN [create_task(FreeJob, user_id, r.config)
                                         EXCEPT ![FreeJob].log = <<Event("confirm", TRUE)>>]
                                ELSE jobs
    /\ UNCHANGED <<ADMIN_IDS, USER_COOLDOWNS, now, text, parsed, accepted>>

\* handle_input without the line that clears the flag
handle_input_keep_flag(user_id, t, ok) ==
    /\ LoopIdle
    /\ IF ~user_data[user_id]
       THEN /\ last' = Handled("input", user_id, "none")
            /\ UNCHANGED <<user_data, jobs>>
       ELSE LET r == parse_video_config(t)
            IN  IF r.raised
                THEN /\ last' = Handled("input", user_id, "format_error")
                     /\ UNCHANGED <<user_data, jobs>>
                ELSE /\ \E j \in JobIds : jobs[j].pc = "none"
                     /\ last' = Handled("input", user_id, "confirm")
                     /\ UNCHANGED user_data
                     /\ jobs' = IF ok
                                THEN [create_task(FreeJob, user_id, r.config)
                                         EXCEPT ![FreeJob].log = <<Event("confirm", TRUE)>>]
                                ELSE jobs
    /\ UNCHANGED <<ADMIN_IDS, USER_COOLDOWNS, now, text, parsed, accepted>>

\* ok: the reply_text call returned (TRUE) or raised (FALSE)
handle_input(user_id, t, ok) ==
    /\ LoopIdle
    /\ IF ~user_data[user_id]
       THEN /\ last' = Handled("input", user_id, "none")
            /\ UNCHANGED <<user_data, jobs>>
       ELSE LET r == parse_video_config(t)
            IN  IF r.raised
                THEN /\ last' = Handled("input", user_id, "format_error")
                     /\ UNCHANGED <<user_data, jobs>>
                ELSE /\ \E j \in JobIds : jobs[j].pc = "none"
                     /\ last' = Handled("input", user_id, "confirm")
                     /\ user_data' = [user_data EXCEPT ![user_id] = FALSE]
                     /\ jobs' = IF ok
                                THEN [create_task(FreeJob, user_id, r.config)
                                         EXCEPT ![FreeJob].log = <<Event("confirm", TRUE)>>]
                                ELSE jobs
    /\ UNCHANGED <<ADMIN_IDS, USER_COOLDOWNS, now, text, parsed, accepted>>

-----------------------------------------------------------------------------
(* generate_video_task, one action per stretch between two awaits *)

\* the task starts and sends the progress message
job_progress(j, ok) ==
    /\ jobs[j].pc = "start"
    /\ jobs' = [jobs EXCEPT ![j] =
           [Logged(j, "progress", ok) EXCEPT !.pc = IF ok THEN "generate" ELSE "except"]]
    /\ UNCHANGED <<ADMIN_IDS, USER_COOLDOWNS, now, user_data, last, text, parsed, accepted>>

\* generator.generate returns a result; mark_generated follows with no await
generate_returns(j, st_size) ==
    /\ jobs[j].pc = "generate"
    /\ USER_COOLDOWNS' = mark_generated(jobs[j].user)
    /\ jobs' = [jobs EXCEPT ![j] =
           [Logged(j, "mark", TRUE) EXCEPT !.pc = "summary", !.result = "returned",
                                           !.size = st_size, !.file = "exists"]]
    /\ UNCHANGED <<ADMIN_IDS, now, user_data, last, text, parsed, accepted>>

\* generator.generate raises, with mark_generated in a finally clause
generate_raises_marking(j) ==
    /\ jobs[j].pc = "generate"
    /\ USER_COOLDOWNS' = mark_generated(jobs[j].user)
    /\ jobs' = [jobs EXCEPT ![j] =
           [Logged(j, "mark", TRUE) EXCEPT !.pc = "except", !.result = "raised"]]
    /\ UNCHANGED <<ADMIN_IDS, now, user_data, last, text, parsed, accepted>>

\* generator.generate raises
generate_raises(j) ==
    /\ jobs[j].pc = "generate"
    /\ jobs' = [jobs EXCEPT ![j].pc = "except", ![j].result = "raised"]
    /\ UNCHANGED <<ADMIN_IDS, USER_COOLDOWNS, now, user_data, last, text, parsed, accepted>>

\* the success summary is sent
job_summary(j, ok) ==
    /\ jobs[j].pc = "summary"
    /\ jobs' = [jobs EXCEPT ![j] =
           [Logged(j, "summary", ok) EXCEPT !.pc = IF ok THEN "deliver" ELSE "except"]]
    /\ UNCHANGED <<ADMIN_IDS, USER_COOLDOWNS, now, user_data, last, text, parsed, accepted>>

\* the branch on the file size with the unlink before the too-large message
job_deliver_unlink_first(j, ok) ==
    /\ jobs[j].pc = "deliver"
    /\ IF fits_telegram(jobs[j].size)
       THEN jobs' = [jobs EXCEPT ![j] =
                [Logged(j, "sending", ok) EXCEPT !.pc = IF ok THEN "video" ELSE "except"]]
       ELSE IF ok
       THEN jobs' = [jobs EXCEPT ![j] =
                [Logged(j, "unlink", TRUE) EXCEPT
                    !.log = Append(@, Event("too_large", ok)),
                    !.file = "deleted", !.pc = "done"]]
       ELSE jobs' = [jobs EXCEPT ![j] =
                [Logged(j, "unlink", TRUE) EXCEPT
                    !.log = Append(@, Event("too_large", ok)),
                    !.file = "deleted", !.pc = "except"]]
    /\ UNCHANGED <<ADMIN_IDS, USER_COOLDOWNS, now, user_data, last, text, parsed, accepted>>

\* the branch on the file size: "Mengirim video..." or the too-large message,
\* and after the too-large message the unlink
job_deliver(j, ok) ==
    /\ jobs[j].pc = "deliver"
    /\ IF fits_telegram(jobs[j].size)
       THEN jobs' = [jobs EXCEPT ![j] =
                [Logged(j, "sending", ok) EXCEPT !.pc = IF ok THEN "video" ELSE "except"]]
       ELSE IF ok
       THEN jobs' = [jobs EXCEPT ![j] =
                [Logged(j, "too_large", ok) EXCEPT
                    !.log = Append(@, Event("unlink", TRUE)),
                    !.file = "deleted", !.pc = "done"]]
       ELSE jobs' = [jobs EXCEPT ![j] =
                [Logged(j, "too_large", ok) EXCEPT !.pc = "except"]]
    /\ UNCHANGED <<ADMIN_IDS, USER_COOLDOWNS, now, user_data, last, text, parsed, accepted>>

\* reply_video, and after it the unlink
job_video(j, ok) ==
    /\ jobs[j].pc = "video"
    /\ IF ok
       THEN jobs' = [jobs EXCEPT ![j] =
                [Logged(j, "video", ok) EXCEPT
                    !.log = Append(@, Event("unlink", TRUE)),
                    !.file = "deleted", !.pc = "done"]]
       ELSE jobs' = [jobs EXCEPT ![j] =
                [Logged(j, "video", ok) EXCEPT !.pc = "except"]]
    /\ UNCHANGED <<ADMIN_IDS, USER_COOLDOWNS, now, user_data, last, text, parsed, accepted>>

\* the except branch: Logger.error and the failure notice; the task ends
\* whether that last reply_text returns or raises
job_except(j) ==
    /\ jobs[j].pc = "except"
    /\ jobs' = [jobs EXCEPT ![j] = [Logged(j, "failed", TRUE) EXCEPT !.pc = "done"]]
    /\ UNCHANGED <<ADMIN_IDS, USER_COOLDOWNS, now, user_data, last, text, parsed, accepted>>

\* time passes
Tick ==
    /\ \E t \in Clock : t > now /\ now' = t
    /\ UNCHANGED <<ADMIN_IDS, USER_COOLDOWNS, user_data, jobs, last, text, parsed, accepted>>

-----------------------------------------------------------------------------
(* The bot *)

Init ==
    /\ ADMIN_IDS = Split(ADMIN_ENV, ",")
    /\ USER_COOLDOWNS = <<>>
    /\ now = 0
    /\ user_data = [u \in Users |-> FALSE]
    /\ jobs = [j \in JobIds |-> NoJob]
    /\ last = NoUpdate
    /\ text = <<>>
    /\ parsed = NotParsed
    /\ accepted = [u \in Users |-> -1]

\* the commands and texts of the users, the clock, and the jobs with a
\* transport that delivers every message the jobs send
Next ==
    \/ \E u \in Users : start(u)
    \/ \E u \in Users : help_command(u)
    \/ \E u \in Users : status(u)
    \/ \E u \in Users, ok \in BOOLEAN : buatvideo(u, ok)
    \/ \E u \in Users, t \in InputTexts, ok \in BOOLEAN : handle_input(u, t, ok)
    \/ \E j \in JobIds : job_progress(j, TRUE)
    \/ \E j \in JobIds, sz \in Sizes : generate_returns(j, sz)
    \/ \E j \in JobIds : generate_raises(j)
    \/ \E j \in JobIds : job_summary(j, TRUE)
    \/ \E j \in JobIds : job_deliver(j, TRUE)
    \/ \E j \in JobIds : job_video(j, TRUE)
    \/ \E j \in JobIds : job_except(j)
    \/ Tick

Spec == Init /\ [][Next]_vars

-----------------------------------------------------------------------------
(* The parser alone: a text is drawn and parse_video_config is applied *)

parse_call ==
    /\ last.op = "none"
    /\ parsed' = parse_video_config(text)
    /\ last' = [last EXCEPT !.op = "parse"]
    /\ UNCHANGED <<ADMIN_IDS, USER_COOLDOWNS, now, user_data, jobs, text, accepted>>

InitParse ==
    /\ ADMIN_IDS = Split(ADMIN_ENV, ",")
    /\ USER_COOLDOWNS = <<>>
    /\ now = 0
    /\ user_data = [u \in Users |-> FALSE]
    /\ jobs = [j \in JobIds |-> NoJob]
    /\ last = NoUpdate
    /\ text \in Texts
    /\ parsed = NotParsed
    /\ accepted = [u \in Users |-> -1]

NextParse == parse_call

SpecParse == InitParse /\ [][NextParse]_vars

-----------------------------------------------------------------------------
(* The jobs under a transport whose sends may raise: users start sessions   *)
(* and send their texts, and every reply_text and reply_video of a job      *)
(* either returns or raises.                                                *)

NextDelivery ==
    \/ \E u \in Users : buatvideo(u, TRUE)
    \/ \E u \in Users, t \in InputTexts : handle_input(u, t, TRUE)
    \/ \E j \in JobIds, ok \in BOOLEAN : job_progress(j, ok)
    \/ \E j \in JobIds, sz \in Sizes : generate_returns(j, sz)
    \/ \E j \in JobIds : generate_raises(j)
    \/ \E j \in JobIds, ok \in BOOLEAN : job_summary(j, ok)
    \/ \E j \in JobIds, ok \in BOOLEAN : job_deliver(j, ok)
    \/ \E j \in JobIds, ok \in BOOLEAN : job_video(j, ok)
    \/ \E j \in JobIds : job_except(j)

SpecDelivery == Init /\ [][NextDelivery]_vars

-----------------------------------------------------------------------------
(* The sessions with the accepted /buatvideo commands counted: the users   *)
(* send /buatvideo and texts, the clock advances, and the jobs run up to    *)
(* the end of their generator call, which is where the cooldown is written. *)

InitSessions ==
    /\ ADMIN_IDS = Split(ADMIN_ENV, ",")
    /\ USER_COOLDOWNS = <<>>
    /\ now = 0
    /\ user_data = [u \in Users |-> FALSE]
    /\ jobs = [j \in JobIds |-> NoJob]
    /\ last = NoUpdate
    /\ text = <<>>
    /\ parsed = NotParsed
    /\ accepted = [u \in Users |-> 0]

NextSessions ==
    \/ \E u \in Users, ok \in BOOLEAN : buatvideo(u, ok)
    \/ \E u \in Users, t \in InputTexts, ok \in BOOLEAN : handle_input(u, t, ok)
    \/ \E j \in JobIds : job_progress(j, TRUE)
    \/ \E j \in JobIds, sz \in Sizes : generate_returns(j, sz)
    \/ \E j \in JobIds : generate_raises(j)
    \/ Tick

SpecSessions == InitSessions /\ [][NextSessions]_vars

-----------------------------------------------------------------------------
(* Properties *)

GoodText ==
    Join(<< <<"T", "o", "p", "i", "k", ":", " ", "A", "I">>,
            <<"M", "o", "d", "e", ":", " ", "L", "O", "N", "G">> >>)

\* a step in which job j records a successful generation
Marks(j) == jobs[j].pc = "generate" /\ jobs'[j].pc = "summary"

\* C1: whenever a job records a successful generation for a user who is not
\* an administrator and who has an earlier record, at least the cooldown
\* period has passed since that record (records are written in time order,
\* so this is every pair of successful generations of the user).
C1_SuccessesCooldownApart ==
    [][\A j \in JobIds :
          (Marks(j) /\ ~IsAdmin(jobs[j].user)
                    /\ jobs[j].user \in DOMAIN USER_COOLDOWNS)
          => now - USER_COOLDOWNS[jobs[j].user] >= COOLDOWN_HOURS]_vars

\* C2: an administrator is allowed by can_generate in every state, whatever
\* the cooldown map holds, and every /status and /buatvideo of an
\* administrator was answered as allowed.
C2_AdminAlwaysAllowed ==
    /\ \A u \in Users : IsAdmin(u) => can_generate(u).allowed
    /\ (last.op \in {"status", "buatvideo"} /\ IsAdmin(last.user))
           => last.reply \in {"ready", "instruction"}

\* an administrator whose record was written at this very instant has just
\* asked for the status and was told the bot is ready
C2_Witness ==
    \E u \in Users :
        /\ IsAdmin(u)
        /\ u \in DOMAIN USER_COOLDOWNS
        /\ USER_COOLDOWNS[u] = now
        /\ last = Handled("status", u, "ready")

\* C3: for a user who is not an administrator can_generate allows exactly
\* when there is no record or the time since the record is at least the
\* cooldown period.
C3_AllowedIffElapsed ==
    \A u \in Users :
        ~IsAdmin(u) =>
            (can_generate(u).allowed <=>
                (u \notin DOMAIN USER_COOLDOWNS
                 \/ now - USER_COOLDOWNS[u] >= COOLDOWN_HOURS))

\* a user who is not an administrator is told the bot is ready exactly one
\* cooldown period after the record
C3_Witness ==
    \E u \in Users :
        /\ ~IsAdmin(u)
        /\ u \in DOMAIN USER_COOLDOWNS
        /\ now - USER_COOLDOWNS[u] = COOLDOWN_HOURS
        /\ last = Handled("status", u, "ready")

\* a step of job j, its launch included
StepOf(j) == jobs'[j] # jobs[j]

\* C4: a job records a successful generation exactly once, for its user, if
\* its generator call returned and never if it raised; a job whose generator
\* call raised has sent the failure notice when it ends; and no step of a job
\* whose generator call has not returned changes the cooldown map.
C4_MarkOnlyOnSuccess ==
    /\ [](\A j \in JobIds :
            /\ jobs[j].result = "returned"
                  => /\ Count(j, "mark") = 1
                     /\ jobs[j].user \in DOMAIN USER_COOLDOWNS
            /\ jobs[j].result # "returned" => Count(j, "mark") = 0
            /\ (jobs[j].result = "raised" /\ jobs[j].pc = "done")
                  => Sent(j, "failed"))
    /\ [][\A j \in JobIds :
            (StepOf(j) /\ jobs'[j].result # "returned")
                => USER_COOLDOWNS' = USER_COOLDOWNS]_vars

\* a job whose generator raised has ended, and a job of the same user whose
\* generator returned has ended too
C4_Witness ==
    \E j, k \in JobIds :
        /\ jobs[j].pc = "done" /\ jobs[j].result = "raised"
        /\ Sent(j, "failed")
        /\ jobs[k].pc = "done" /\ jobs[k].result = "returned"
        /\ jobs[k].user = jobs[j].user

C6_RefusedLeavesIdle ==
    (last.op = "buatvideo" /\ last.reply = "cooldown") => ~user_data[last.user]

\* C7: when a job whose generator call returned a result has ended, the
\* result's file has been deleted.
C7_FileDeletedAfterResult ==
    \A j \in JobIds :
        (jobs[j].pc = "done" /\ jobs[j].result = "returned")
            => jobs[j].file = "deleted"

\* the job has sent this message and the send returned
Delivered(j, ev) == \E i \in 1..Len(jobs[j].log) : jobs[j].log[i] = Event(ev, TRUE)

\* C8: an attachment is sent only for a file strictly below 50 MB; when a
\* job whose result is 50 MB or more has ended, it has sent no attachment,
\* it has sent the too-large message if it came to the delivery step, the
\* user's cooldown record is written and the file is deleted.
C8_TooLargePath ==
    \A j \in JobIds :
        /\ Sent(j, "video") => jobs[j].size < TELEGRAM_LIMIT_MB * 1024 * 1024
        /\ (jobs[j].pc = "done" /\ jobs[j].result = "returned"
                /\ jobs[j].size >= TELEGRAM_LIMIT_MB * 1024 * 1024)
              => /\ ~Sent(j, "video")
                 /\ Delivered(j, "summary") => Sent(j, "too_large")
                 /\ jobs[j].user \in DOMAIN USER_COOLDOWNS
                 /\ jobs[j].file = "deleted"

\* C9: while a job is suspended on its generator call, no handler is held
\* up by it: every command of every other user is handled, and so is a text
\* of another user (handle_input runs whenever the loop is idle).
C9_HangingJobBlocksNobody ==
    \A j \in JobIds :
        jobs[j].pc = "generate" =>
            /\ LoopIdle
            /\ \A v \in Users \ {jobs[j].user} :
                  /\ ENABLED start(v)
                  /\ ENABLED help_command(v)
                  /\ ENABLED status(v)
                  /\ ENABLED buatvideo(v, TRUE)

\* one user's job is suspended on its generator call, and a job of another
\* user, launched after it, has delivered its video and deleted the file
C9_Witness ==
    \E j, k \in JobIds :
        /\ j < k
        /\ jobs[j].pc = "generate"
        /\ jobs[k].user # jobs[j].user
        /\ jobs[k].pc = "done"
        /\ Delivered(k, "video")
        /\ jobs[k].file = "deleted"

\* the lines of a text that have a colon and a key, the part before the
\* first colon, that contains "topik" or "topic" in any case
TopicLines(t) ==
    LET raw == Split(t, "\n")
    IN  { i \in 1..Len(raw) :
            /\ HasChar(":", raw[i])
            /\ LET key == Lower(SubSeq(raw[i], 1, FirstIndex(":", raw[i]) - 1))
               IN  Contains(kTopik, key) \/ Contains(kTopic, key) }

\* the trimmed value of the last of those lines
FinalTopic(t) ==
    LET raw == Split(t, "\n")
        i == CHOOSE n \in TopicLines(t) : \A m \in TopicLines(t) : m <= n
    IN  Strip(SubSeq(raw[i], FirstIndex(":", raw[i]) + 1, Len(raw[i])))

\* C10: parse_video_config raises exactly when the text has no line with a
\* topic key or the value of the last such line is empty after trimming;
\* otherwise it returns a configuration whose topic is that value, not empty.
C10_RaisesIffNoTopic ==
    last.op = "parse" =>
        /\ parsed.raised <=> (TopicLines(text) = {} \/ FinalTopic(text) = <<>>)
        /\ ~parsed.raised =>
              /\ parsed.config.topic # <<>>
              /\ parsed.config.topic = FinalTopic(text)

\* a text with several topic lines, the last of them empty, made the call
\* raise
C10_Witness ==
    /\ last.op = "parse"
    /\ parsed.raised
    /\ Cardinality(TopicLines(text)) >= 2

-----------------------------------------------------------------------------
(* Lines of the parser's input, by the family of their key *)

\* the family of a line: "none" for a line without a colon or with a key
\* that holds none of the five words, else the first of topic, mode and
\* style whose word the key holds
Family(l) ==
    IF ~HasChar(":", l)
    THEN "none"
    ELSE LET key == Lower(SubSeq(l, 1, FirstIndex(":", l) - 1))
         IN  IF Contains(kTopik, key) \/ Contains(kTopic, key) THEN "topic"
             ELSE IF Contains(kMode, key) THEN "mode"
             ELSE IF Contains(kStyle, key) \/ Contains(kGaya, key) THEN "style"
             ELSE "none"

\* the trimmed text after the first colon of a line
ValueOf(l) == Strip(SubSeq(l, FirstIndex(":", l) + 1, Len(l)))

\* the positions of the lines of a family in a text
FamilyLines(t, fam) ==
    LET raw == Split(t, "\n")
    IN  { i \in 1..Len(raw) : Family(raw[i]) = fam }

\* the last line of a family that occurs in a text
LastLine(t, fam) ==
    LET raw == Split(t, "\n")
        i == CHOOSE n \in FamilyLines(t, fam) :
                 \A m \in FamilyLines(t, fam) : m <= n
    IN  raw[i]

\* the configuration in which each field comes from the last line of its
\* family alone, or is the default if the family does not occur
LastWins(t) ==
    [topic |-> IF FamilyLines(t, "topic") = {} THEN <<>>
               ELSE ValueOf(LastLine(t, "topic")),
     mode  |-> IF FamilyLines(t, "mode") = {} THEN "short"
               ELSE IF Contains(kLong, Lower(ValueOf(LastLine(t, "mode"))))
                    THEN "long" ELSE "short",
     style |-> IF FamilyLines(t, "style") = {} THEN kCinematic
               ELSE ValueOf(LastLine(t, "style"))]

\* the text with lines i and i + 1 exchanged
SwapLines(t, i) ==
    LET raw == Split(t, "\n")
    IN  Join([n \in 1..Len(raw) |->
                IF n = i THEN raw[i + 1] ELSE IF n = i + 1 THEN raw[i] ELSE raw[n]])

\* C11: each field of the result comes from the last line of its family
\* alone (the call raises exactly when that gives an empty topic), and
\* exchanging two neighbouring lines of different families does not change
\* the outcome of the call.
C11_LastLineOfFamilyWins ==
    last.op = "parse" =>
        /\ parsed.raised <=> (LastWins(text).topic = <<>>)
        /\ ~parsed.raised => parsed.config = LastWins(text)
        /\ \A i \in 1..(Len(Split(text, "\n")) - 1) :
              Family(Split(text, "\n")[i]) # Family(Split(text, "\n")[i + 1])
                  => parse_video_config(SwapLines(text, i)) = parsed

\* a text with two topic lines of different values and two mode lines of
\* different values has been parsed, the later line of each deciding
C11_Witness ==
    /\ last.op = "parse"
    /\ ~parsed.raised
    /\ Cardinality(FamilyLines(text, "topic")) = 2
    /\ \E i \in FamilyLines(text, "topic") :
          ValueOf(Split(text, "\n")[i]) # parsed.config.topic
    /\ Cardinality(FamilyLines(text, "mode")) >= 1

\* the text without its line i
DropLine(t, i) ==
    LET raw == Split(t, "\n")
    IN  Join([n \in 1..(Len(raw) - 1) |-> IF n < i THEN raw[n] ELSE raw[n + 1]])

\* C12: a text with a line that has no colon, or whose key belongs to no
\* family, has the same outcome (raising or not, and the configuration) as
\* the text without that line; so putting any number of such lines anywhere
\* into a text changes nothing.
C12_OtherLinesIgnored ==
    last.op = "parse" =>
        \A i \in FamilyLines(text, "none") :
            parse_video_config(DropLine(text, i)) = parsed

\* a text with a line of an unknown key between a topic line and a style
\* line has been parsed and did not raise
C12_Witness ==
    /\ last.op = "parse"
    /\ ~parsed.raised
    /\ Len(Split(text, "\n")) = 3
    /\ Family(Split(text, "\n")[1]) = "topic"
    /\ Family(Split(text, "\n")[2]) = "none"
    /\ HasChar(":", Split(text, "\n")[2])
    /\ Family(Split(text, "\n")[3]) = "style"

-----------------------------------------------------------------------------
(* Handlers and the state they leave alone.  A step that changes `last` is *)
(* the step of the handler `last` names afterwards; a handler step that    *)
(* leaves `last` as it was is the same update handled again.               *)

\* C13: handling /start, /help or /status of a user whose awaiting-input
\* flag is set is done by that command's own handler, which sends its own
\* reply, launches no job and leaves the flag set; and a text of a user
\* whose flag is set is parsed (it is answered with the confirmation or the
\* format error).
C13_CommandsKeepAwaiting ==
    [][/\ (/\ last' # last
           /\ last'.op \in {"start", "help", "status"}
           /\ user_data[last'.user])
          => /\ user_data' = user_data
             /\ jobs' = jobs
             /\ last'.reply = CASE last'.op = "start" -> "welcome"
                                [] last'.op = "help" -> "help"
                                [] last'.op = "status" ->
                                      IF can_generate(last'.user).allowed
                                      THEN "ready" ELSE "wait"
       /\ (/\ last' # last
           /\ last'.op = "input"
           /\ user_data[last'.user])
          => last'.reply \in {"confirm", "format_error"}]_vars

\* a user whose flag is set has asked for the status, was answered, and the
\* flag is still set
C13_Witness ==
    /\ last.op = "status"
    /\ last.reply = "ready"
    /\ ~IsAdmin(last.user)
    /\ user_data[last.user]

\* C14: a /status and a refused /buatvideo change neither the cooldown map
\* nor any user's awaiting-input flag, and an accepted /buatvideo, which
\* has called can_generate too, does not change the cooldown map.
C14_ChecksAreReadOnly ==
    [][/\ (/\ last' # last
           /\ \/ last'.op = "status"
              \/ last'.op = "buatvideo" /\ last'.reply = "cooldown")
          => /\ USER_COOLDOWNS' = USER_COOLDOWNS
             /\ user_data' = user_data
       /\ (last' # last /\ last'.op = "buatvideo")
          => USER_COOLDOWNS' = USER_COOLDOWNS]_vars

\* a user whose flag is set and who has a cooldown record has been refused
\* by /buatvideo; the flag is still set and the record is still there
C14_Witness ==
    /\ last.op = "buatvideo"
    /\ last.reply = "cooldown"
    /\ user_data[last.user]
    /\ last.user \in DOMAIN USER_COOLDOWNS

\* C15: whenever can_generate denies a user, the wait it reports is the
\* cooldown period less the time since the user's record, at least zero
\* (more than zero, in fact) and at most the cooldown period.
C15_WaitIsCooldownLessElapsed ==
    \A u \in Users :
        ~can_generate(u).allowed =>
            /\ ~IsAdmin(u)
            /\ u \in DOMAIN USER_COOLDOWNS
            /\ can_generate(u).hours_left
                   = COOLDOWN_HOURS - (now - USER_COOLDOWNS[u])
            /\ can_generate(u).hours_left > 0
            /\ can_generate(u).hours_left <= COOLDOWN_HOURS

\* a user has been told to wait one hour before the cooldown period ends
C15_Witness ==
    /\ last.op = "status"
    /\ last.reply = "wait"
    /\ ~can_generate(last.user).allowed
    /\ can_generate(last.user).hours_left = 1

\* C17: handling a text of a user whose awaiting-input flag is not set
\* sends no reply, launches no job and changes neither a flag nor the
\* cooldown map.
C17_UnexpectedTextIgnored ==
    [][(/\ last' # last
        /\ last'.op = "input"
        /\ ~user_data[last'.user])
       => /\ last'.reply = "none"
          /\ jobs' = jobs
          /\ user_data' = user_data
          /\ USER_COOLDOWNS' = USER_COOLDOWNS]_vars

\* a text of a user whose job is running and whose flag is not set has been
\* ignored
C17_Witness ==
    /\ last.op = "input"
    /\ last.reply = "none"
    /\ ~user_data[last.user]
    /\ \E j \in JobIds : jobs[j].user = last.user /\ jobs[j].pc = "generate"

-----------------------------------------------------------------------------
(* The order of the events of one request *)

\* the place of an event in the order of a request that succeeds
Rank(ev) ==
    CASE ev = "confirm" -> 1
      [] ev = "progress" -> 2
      [] ev = "mark" -> 3
      [] ev = "summary" -> 4
      [] ev = "sending" -> 5
      [] ev \in {"video", "too_large"} -> 6
      [] ev = "unlink" -> 7
      [] ev = "failed" -> 8

\* C16: the events of a request come in the order confirmation, progress
\* message, mark_generated, success summary, attachment or too-large
\* message, deletion of the file, each at most once: the confirmation has
\* been sent before the job exists, the cooldown is recorded before the
\* summary is sent, the summary has been sent before the attachment or the
\* too-large message is, and the deletion is the last event of its job.
C16_OrderOfARequest ==
    \A j \in JobIds :
        LET log == jobs[j].log
        IN  /\ \A i, k \in 1..Len(log) : i < k => Rank(log[i].ev) < Rank(log[k].ev)
            /\ jobs[j].pc # "none" => (log # <<>> /\ log[1] = Event("confirm", TRUE))
            /\ Sent(j, "mark") => Delivered(j, "progress")
            /\ Sent(j, "summary") => Sent(j, "mark")
            /\ (Sent(j, "sending") \/ Sent(j, "video") \/ Sent(j, "too_large"))
                  => Delivered(j, "summary")
            /\ Sent(j, "unlink")
                  => /\ log[Len(log)].ev = "unlink"
                     /\ jobs[j].pc = "done"
                     /\ Delivered(j, "video") \/ Delivered(j, "too_large")

\* one job has sent the video and deleted the file, another has sent the
\* too-large message and deleted the file
C16_Witness ==
    \E j, k \in JobIds :
        /\ jobs[j].log = << Event("confirm", TRUE), Event("progress", TRUE),
                            Event("mark", TRUE), Event("summary", TRUE),
                            Event("sending", TRUE), Event("video", TRUE),
                            Event("unlink", TRUE) >>
        /\ jobs[k].log = << Event("confirm", TRUE), Event("progress", TRUE),
                            Event("mark", TRUE), Event("summary", TRUE),
                            Event("too_large", TRUE), Event("unlink", TRUE) >>

\* C19: a job that has sent the failure notice has not written a cooldown
\* record.
C19_FailureNoticeMeansNoCooldown ==
    \A j \in JobIds : Sent(j, "failed") => Count(j, "mark") = 0

-----------------------------------------------------------------------------
(* One user's operations and the other users' state *)

\* the step writes, rewrites or removes the cooldown record of user v
RecordChanged(v) ==
    \/ (v \in DOMAIN USER_COOLDOWNS') # (v \in DOMAIN USER_COOLDOWNS)
    \/ /\ v \in DOMAIN USER_COOLDOWNS'
       /\ v \in DOMAIN USER_COOLDOWNS
       /\ USER_COOLDOWNS'[v] # USER_COOLDOWNS[v]

\* C20: a step changes a user's awaiting-input flag only if it handles a
\* /buatvideo or a text of that user, and changes a user's cooldown record
\* only if it is the mark_generated of a job of that user; so no command,
\* text or job step of one user changes another user's record or flag.
C20_UsersAreIsolated ==
    [][\A v \in Users :
          /\ user_data'[v] # user_data[v]
                => /\ last'.op \in {"buatvideo", "input"}
                   /\ last'.user = v
                   /\ jobs' = jobs \/ \E j \in JobIds :
                         /\ jobs[j].pc = "none"
                         /\ jobs'[j].user = v
                         /\ \A k \in JobIds \ {j} : jobs'[k] = jobs[k]
          /\ RecordChanged(v)
                => /\ \E j \in JobIds : Marks(j) /\ jobs[j].user = v
                   /\ user_data' = user_data
                   /\ last' = last]_vars

\* both users have a cooldown record, written at different times, and one
\* of them is awaiting input while the other is not
C20_Witness ==
    /\ DOMAIN USER_COOLDOWNS = Users
    /\ \E u, v \in Users :
          /\ USER_COOLDOWNS[u] < USER_COOLDOWNS[v]
          /\ user_data[u] # user_data[v]

-----------------------------------------------------------------------------
(* Jobs launched and /buatvideo commands accepted *)

\* the jobs launched for a user so far (a job number is used once)
Launched(u) == Cardinality({j \in JobIds : jobs[j].pc # "none" /\ jobs[j].user = u})

\* C18: for every user the jobs launched so far, and one more if the user's
\* awaiting-input flag is set, are at most the user's /buatvideo commands
\* that passed the rate-limit check so far; so one accepted /buatvideo
\* followed by any number of texts launches at most one job.
C18_OneJobPerAcceptedCommand ==
    \A u \in Users :
        Counted(u) =>
            Launched(u) + (IF user_data[u] THEN 1 ELSE 0) <= accepted[u]

\* a user with one accepted /buatvideo has one job, and a further text of
\* that user has been ignored
C18_Witness ==
    \E u \in Users :
        /\ accepted[u] = 1
        /\ Launched(u) = 1
        /\ last = Handled("input", u, "none")

====
